---- MODULE Spec2Model ----
(***************************************************************************)
(* Model of src/src/engine.rs (reed-solomon-simd, module `engine`):        *)
(*   - add_mod / sub_mod                 (field "addition"/"subtraction")  *)
(*   - checked_next_multiple_of          (rounding utility)                *)
(*   - Engine::formal_derivative / Engine::xor_within                      *)
(*   - eval_poly                         (fwht, element-wise multiply,     *)
(*                                        fwht)                            *)
(*                                                                         *)
(* Rust's u32 values do not fit the model checker's integers once they     *)
(* reach 2^31, so a u32 is kept as two 16-bit limbs [hi, lo] wherever the  *)
(* code lets it wrap or exceed 2^31 (sub_mod's wrapping_sub, eval_poly's   *)
(* product).                                                               *)
(***************************************************************************)
EXTENDS Integers, Sequences, FiniteSets

VARIABLES
    x, y, aop, res,                      \* add_mod / sub_mod calls
    a, b, nmpc, nm,                      \* checked_next_multiple_of call
    len, bufA, bufB, bufX, i, fdpc,      \* formal_derivative on a, b and a XOR b
    prevA, hist,                         \* history of the xor_within calls
    erasures, log_walsh, truncated_size, \* eval_poly
    epc, pre, calls, overflow

arithVars == <<x, y, aop, res>>
nmVars    == <<a, b, nmpc, nm>>
fdVars    == <<len, bufA, bufB, bufX, i, fdpc, prevA, hist>>
evVars    == <<erasures, log_walsh, truncated_size, epc, pre, calls, overflow>>
vars      == <<arithVars, nmVars, fdVars, evVars>>

(***************************************************************************)
(* Program constants                                                       *)
(***************************************************************************)
GF_BITS == 16
GF_MODULUS == 65535

(***************************************************************************)
(* Bounds of the model                                                     *)
(***************************************************************************)
\* operands are drawn from [0, Edge], [2^15 - Edge, 2^15 + Edge] and
\* [GF_MODULUS - Edge, GF_MODULUS]
Edge == 6
\* width in bits of the model's usize
UsizeBits == 5
\* largest shard count of a buffer when a and b are both arbitrary
MaxShards == 4
\* largest shard count of a buffer when b is all zero and a has two row values
MaxShardsWide == 8
\* a shard row is a bit vector, kept as a number in 0..RowMax
RowMax == 1
\* the erasures array of the model has 2^LogLen elements
LogLen == 1

(***************************************************************************)
(* Fixed-width integers                                                    *)
(***************************************************************************)
\* 2^16: `as GfElement` keeps a value modulo this
U16Range == 2 ^ GF_BITS

\* u32::from(v) for a u16 v
u32_from(v) == [hi |-> 0, lo |-> v]

\* u32::wrapping_add
wrapping_add(p, q) ==
    LET l == p.lo + q.lo
        h == p.hi + q.hi + (l \div U16Range)
    IN  [hi |-> h % U16Range, lo |-> l % U16Range]

\* u32::wrapping_sub
wrapping_sub(p, q) ==
    LET l == p.lo - q.lo
        borrow == IF l < 0 THEN 1 ELSE 0
        h == p.hi - q.hi - borrow
    IN  [hi |-> h % U16Range, lo |-> l % U16Range]

\* p >> GF_BITS on a u32
shr_bits(p) == [hi |-> 0, lo |-> p.hi]

\* p as GfElement
as_gf(p) == p.lo

(***************************************************************************)
(* add_mod, sub_mod                                                        *)
(***************************************************************************)
\* a plausible slip: the carry is dropped instead of folded back
add_mod_nofold(p, q) ==
    LET sum == p + q
    IN  sum % U16Range

\* a plausible slip: the carry is folded back twice
add_mod_twofold(p, q) ==
    LET sum == p + q
    IN  (sum + 2 * (sum \div U16Range)) % U16Range

\* sum <= 2 * 65535 < 2^31: the plain u32 additions cannot overflow
add_mod(p, q) ==
    LET sum == p + q
    IN  (sum + (sum \div U16Range)) % U16Range

\* a plausible slip: the borrow is not folded back
sub_mod_nofold(p, q) ==
    LET dif == wrapping_sub(u32_from(p), u32_from(q))
    IN  as_gf(dif)

\* a plausible slip: operands the other way round
sub_mod_swapped(p, q) ==
    LET dif == wrapping_sub(u32_from(q), u32_from(p))
    IN  as_gf(wrapping_add(dif, shr_bits(dif)))

sub_mod(p, q) ==
    LET dif == wrapping_sub(u32_from(p), u32_from(q))
    IN  as_gf(wrapping_add(dif, shr_bits(dif)))

(***************************************************************************)
(* checked_next_multiple_of                                                *)
(***************************************************************************)
USIZE_MAX == 2 ^ UsizeBits - 1
None == <<"None">>
Some(v) == <<"Some", v>>
\* outcome of a plain usize addition that leaves the usize range
Overflowed == <<"Overflowed">>

\* usize::checked_mul
checked_mul(p, q) == IF p * q > USIZE_MAX THEN None ELSE Some(p * q)

\* a plausible slip: the last step multiplies unchecked (wrapping)
checked_next_multiple_of_wrapping(p, q) ==
    IF q = 0
    THEN None
    ELSE LET x0 == p \div q
             x1 == x0 + (IF (p % q) # 0 THEN 1 ELSE 0)
         IN  Some((x1 * q) % (USIZE_MAX + 1))

\* `x += ...` is a plain addition: past USIZE_MAX it panics (or wraps)
checked_next_multiple_of(p, q) ==
    IF q = 0
    THEN None
    ELSE LET x0 == p \div q
             x1 == x0 + (IF (p % q) # 0 THEN 1 ELSE 0)
         IN  IF x1 > USIZE_MAX THEN Overflowed ELSE checked_mul(x1, q)

(***************************************************************************)
(* Engine::xor, Engine::xor_within, Engine::formal_derivative              *)
(*                                                                         *)
(* A buffer is a function from shard index 0..len-1 to a shard row; a row  *)
(* of bytes is a bit vector, kept as a natural number, and XOR of rows is  *)
(* the bitwise XOR of the numbers.                                         *)
(***************************************************************************)
RECURSIVE BitXor(_, _)
\* the ^ operator
BitXor(p, q) ==
    IF p = 0 THEN q
    ELSE IF q = 0 THEN p
    ELSE (((p % 2) + (q % 2)) % 2) + 2 * BitXor(p \div 2, q \div 2)

RECURSIVE BitOr(_, _)
BitOr(p, q) ==
    IF p = 0 THEN q
    ELSE IF q = 0 THEN p
    ELSE (IF (p % 2) + (q % 2) > 0 THEN 1 ELSE 0) + 2 * BitOr(p \div 2, q \div 2)

\* a plausible slip: x[] |= y[]
xor_as_or(xs, ys) == [k \in DOMAIN xs |-> BitOr(xs[k], ys[k])]

\* x[] ^= y[]: the new contents of xs
xor(xs, ys) == [k \in DOMAIN xs |-> BitXor(xs[k], ys[k])]

\* data.flat2_mut(p, q, count) yields its two views: both ranges lie in the buffer
flat2_mut_ok(data, p, q, count) ==
    /\ p >= 0
    /\ q >= 0
    /\ p + count <= len
    /\ q + count <= len

\* the view data[p .. p + count]
flat_view(data, p, count) == [k \in 0 .. count - 1 |-> data[p + k]]

\* a plausible slip: the two views are handed to xor the other way round
xor_within_swapped(data, p, q, count) ==
    LET xs == flat_view(data, p, count)
        ys == flat_view(data, q, count)
        out == xor(ys, xs)
    IN  [k \in DOMAIN data |->
            IF k >= q /\ k < q + count THEN out[k - q] ELSE data[k]]

\* data[p .. p + count] ^= data[q .. q + count]
xor_within(data, p, q, count) ==
    LET xs == flat_view(data, p, count)
        ys == flat_view(data, q, count)
        out == xor(xs, ys)
    IN  [k \in DOMAIN data |->
            IF k >= p /\ k < p + count THEN out[k - p] ELSE data[k]]

\* a plausible slip: the final halving is left out
width_unhalved(j) == BitXor(j, j - 1) + 1

\* let width: usize = ((i ^ (i - 1)) + 1) >> 1
width(j) == (BitXor(j, j - 1) + 1) \div 2

\* a plausible slip: the arguments of xor_within in the order (i, i - width)
fd_call_reversed(j) == [i |-> j, x |-> j, y |-> j - width(j), count |-> width(j)]

\* the call Self::xor_within(data, i - width, i, width) of iteration i
fd_call(j) == [i |-> j, x |-> j - width(j), y |-> j, count |-> width(j)]

\* formal_derivative is entered: the loop `for i in 1..data.len()` starts
FdEnter ==
    /\ fdpc = "start"
    /\ fdpc' = "loop"
    /\ i' = 1
    /\ UNCHANGED <<len, bufA, bufB, bufX, prevA, hist>>
    /\ UNCHANGED <<arithVars, nmVars, evVars>>

\* one iteration of the loop, on the three buffers a, b and a XOR b
FdStep ==
    /\ fdpc = "loop"
    /\ i < len
    /\ LET c == fd_call(i) IN
        /\ flat2_mut_ok(bufA, c.x, c.y, c.count)
        /\ bufA' = xor_within(bufA, c.x, c.y, c.count)
        /\ bufB' = xor_within(bufB, c.x, c.y, c.count)
        /\ bufX' = xor_within(bufX, c.x, c.y, c.count)
        /\ hist' = Append(hist, c)
    /\ prevA' = bufA
    /\ i' = i + 1
    /\ UNCHANGED <<len, fdpc>>
    /\ UNCHANGED <<arithVars, nmVars, evVars>>

\* an iteration whose ranges leave the buffer: the call is issued and panics
FdPanic ==
    /\ fdpc = "loop"
    /\ i < len
    /\ LET c == fd_call(i) IN
        /\ ~flat2_mut_ok(bufA, c.x, c.y, c.count)
        /\ hist' = Append(hist, c)
    /\ fdpc' = "panic"
    /\ UNCHANGED <<len, bufA, bufB, bufX, i, prevA>>
    /\ UNCHANGED <<arithVars, nmVars, evVars>>

\* the range 1..data.len() is exhausted
FdReturn ==
    /\ fdpc = "loop"
    /\ i >= len
    /\ fdpc' = "done"
    /\ UNCHANGED <<len, bufA, bufB, bufX, i, prevA, hist>>
    /\ UNCHANGED <<arithVars, nmVars, evVars>>

(***************************************************************************)
(* eval_poly                                                               *)
(***************************************************************************)
\* length of the model's erasures array (the program's is GF_ORDER)
ErasuresLen == 2 ^ LogLen

\* one layer of butterflies at distance dist; groups from m_truncated on are skipped
fwht_layer(data, dist, m_truncated) ==
    [k \in DOMAIN data |->
        LET r == (k \div (2 * dist)) * (2 * dist) IN
        IF r >= m_truncated THEN data[k]
        ELSE IF k - r < dist THEN add_mod(data[k], data[k + dist])
        ELSE sub_mod(data[k - dist], data[k])]

RECURSIVE fwht_from(_, _, _)
fwht_from(data, dist, m_truncated) ==
    IF dist >= ErasuresLen THEN data
    ELSE fwht_from(fwht_layer(data, dist, m_truncated), 2 * dist, m_truncated)

\* fwht::fwht(data, m_truncated)
fwht(data, m_truncated) == fwht_from(data, 1, m_truncated)

\* 2^8: splits a 16-bit factor in two bytes
ByteRange == 2 ^ (GF_BITS \div 2)

\* u32::from(e) * u32::from(f) as limbs; over: the product left the u32 range
mul_u32(e, f) ==
    LET t == e * (f \div ByteRange)
        low == (t % ByteRange) * ByteRange + e * (f % ByteRange)
        high == (t \div ByteRange) + (low \div U16Range)
    IN  [hi |-> high % U16Range, lo |-> low % U16Range, over |-> high >= U16Range]

\* a plausible slip: the two halves are combined without the carry fold
eval_mul_nofold(e, f) ==
    LET product == mul_u32(e, f)
    IN  add_mod_nofold(as_gf(product), as_gf(shr_bits(product)))

\* the body of the loop: *e = add_mod(product as GfElement, (product >> GF_BITS) as GfElement)
eval_mul(e, f) ==
    LET product == mul_u32(e, f)
    IN  add_mod(as_gf(product), as_gf(shr_bits(product)))

\* fwht::fwht(erasures, truncated_size)
EvFwhtTruncated ==
    /\ epc = "start"
    /\ erasures' = fwht(erasures, truncated_size)
    /\ calls' = Append(calls, <<"fwht", truncated_size>>)
    /\ epc' = "multiply"
    /\ UNCHANGED <<log_walsh, truncated_size, pre, overflow>>
    /\ UNCHANGED <<arithVars, nmVars, fdVars>>

\* the loop over zip(erasures, log_walsh)
EvMultiply ==
    /\ epc = "multiply"
    /\ erasures' = [k \in DOMAIN erasures |-> eval_mul(erasures[k], log_walsh[k])]
    /\ overflow' = \E k \in DOMAIN erasures : mul_u32(erasures[k], log_walsh[k]).over
    /\ pre' = erasures
    /\ calls' = Append(calls, <<"multiply">>)
    /\ epc' = "fwht"
    /\ UNCHANGED <<log_walsh, truncated_size>>
    /\ UNCHANGED <<arithVars, nmVars, fdVars>>

\* fwht::fwht(erasures, GF_ORDER): the whole array
EvFwhtFull ==
    /\ epc = "fwht"
    /\ erasures' = fwht(erasures, ErasuresLen)
    /\ calls' = Append(calls, <<"fwht", ErasuresLen>>)
    /\ epc' = "done"
    /\ UNCHANGED <<log_walsh, truncated_size, pre, overflow>>
    /\ UNCHANGED <<arithVars, nmVars, fdVars>>

(***************************************************************************)
(* Calls of add_mod, sub_mod and checked_next_multiple_of                  *)
(***************************************************************************)
DoAddMod ==
    /\ aop = "idle"
    /\ res' = add_mod(x, y)
    /\ aop' = "add"
    /\ UNCHANGED <<x, y>>
    /\ UNCHANGED <<nmVars, fdVars, evVars>>

DoSubMod ==
    /\ aop = "idle"
    /\ res' = sub_mod(x, y)
    /\ aop' = "sub"
    /\ UNCHANGED <<x, y>>
    /\ UNCHANGED <<nmVars, fdVars, evVars>>

\* sub_mod(add_mod(x, y), y)
DoAddThenSub ==
    /\ aop = "idle"
    /\ res' = sub_mod(add_mod(x, y), y)
    /\ aop' = "addsub"
    /\ UNCHANGED <<x, y>>
    /\ UNCHANGED <<nmVars, fdVars, evVars>>

DoNextMultiple ==
    /\ nmpc = "idle"
    /\ nm' = checked_next_multiple_of(a, b)
    /\ nmpc' = "done"
    /\ UNCHANGED <<a, b>>
    /\ UNCHANGED <<arithVars, fdVars, evVars>>

(***************************************************************************)
(* Initial states and specifications                                       *)
(***************************************************************************)
\* 16-bit operands: both ends of the range and its middle
Samples ==
    (0 .. Edge)
    \cup ((2 ^ (GF_BITS - 1) - Edge) .. (2 ^ (GF_BITS - 1) + Edge))
    \cup ((GF_MODULUS - Edge) .. GF_MODULUS)

\* contents of the erasures array and of the Walsh table
ErasureElems == {0, 1, GF_MODULUS - 1, GF_MODULUS}
LogWalshElems == {1, GF_MODULUS - 1, GF_MODULUS}

ArithIdle == x = 0 /\ y = 0 /\ aop = "off" /\ res = 0
NmIdle == a = 0 /\ b = 0 /\ nmpc = "off" /\ nm = None
FdIdle ==
    /\ len = 0 /\ bufA = <<>> /\ bufB = <<>> /\ bufX = <<>>
    /\ i = 0 /\ fdpc = "off" /\ prevA = <<>> /\ hist = <<>>
EvIdle ==
    /\ erasures = <<>> /\ log_walsh = <<>> /\ truncated_size = 0
    /\ epc = "off" /\ pre = <<>> /\ calls = <<>> /\ overflow = FALSE

InitArith ==
    /\ x \in Samples /\ y \in Samples /\ aop = "idle" /\ res = 0
    /\ NmIdle /\ FdIdle /\ EvIdle
NextArith == DoAddMod \/ DoSubMod \/ DoAddThenSub
SpecArith == InitArith /\ [][NextArith]_vars

InitNm ==
    /\ a \in 0 .. USIZE_MAX /\ b \in 0 .. USIZE_MAX /\ nmpc = "idle" /\ nm = None
    /\ ArithIdle /\ FdIdle /\ EvIdle
NextNm == DoNextMultiple
SpecNm == InitNm /\ [][NextNm]_vars

\* a, b arbitrary buffers of the same length, and a XOR b
InitFd ==
    /\ len \in 0 .. MaxShards
    /\ bufA \in [0 .. len - 1 -> 0 .. RowMax]
    /\ bufB \in [0 .. len - 1 -> 0 .. RowMax]
    /\ bufX = [k \in 0 .. len - 1 |-> BitXor(bufA[k], bufB[k])]
    /\ i = 0 /\ fdpc = "start" /\ prevA = bufA /\ hist = <<>>
    /\ ArithIdle /\ NmIdle /\ EvIdle
NextFd == FdEnter \/ FdStep \/ FdPanic \/ FdReturn
SpecFd == InitFd /\ [][NextFd]_vars

\* longer buffers: every row of a is zero or RowMax, b is all zero
InitFdWide ==
    /\ len \in 0 .. MaxShardsWide
    /\ bufA \in [0 .. len - 1 -> {0, RowMax}]
    /\ bufB = [k \in 0 .. len - 1 |-> 0]
    /\ bufX = bufA
    /\ i = 0 /\ fdpc = "start" /\ prevA = bufA /\ hist = <<>>
    /\ ArithIdle /\ NmIdle /\ EvIdle
SpecFdWide == InitFdWide /\ [][NextFd]_vars

InitEv ==
    /\ erasures \in [0 .. ErasuresLen - 1 -> ErasureElems]
    /\ log_walsh \in [0 .. ErasuresLen - 1 -> LogWalshElems]
    /\ truncated_size \in 0 .. ErasuresLen
    /\ epc = "start" /\ pre = erasures /\ calls = <<>> /\ overflow = FALSE
    /\ ArithIdle /\ NmIdle /\ FdIdle
NextEv == EvFwhtTruncated \/ EvMultiply \/ EvFwhtFull
SpecEv == InitEv /\ [][NextEv]_vars

(***************************************************************************)
(* Properties of add_mod and sub_mod (SpecArith)                           *)
(***************************************************************************)
\* C1, as stated: add_mod(x, y) = (x + y) mod 65535 for all x, y in [0, 65535]
C1_AddIsCanonical == aop = "add" => res = (x + y) % GF_MODULUS

\* C1, amended: add_mod(x, y) = (x + y) mod 65535, except that it returns 65535
\* where x + y is a non-zero multiple of 65535
C1_AddModFold ==
    aop = "add" =>
        res = (IF x + y > 0 /\ (x + y) % GF_MODULUS = 0
               THEN GF_MODULUS
               ELSE (x + y) % GF_MODULUS)

\* an addition whose 32-bit sum carries into bit 16
C1_Witness == aop = "add" /\ x = GF_MODULUS /\ y = 2 /\ res = 2

\* C2, as stated: sub_mod(x, y) = (x - y) mod 65535 for all x, y in [0, 65535]
C2_SubIsCanonical == aop = "sub" => res = (x - y) % GF_MODULUS

\* C2, amended: sub_mod(x, y) = (x - y) mod 65535, except that
\* sub_mod(65535, 0) = 65535
C2_SubModFold ==
    aop = "sub" =>
        res = (IF x = GF_MODULUS /\ y = 0
               THEN GF_MODULUS
               ELSE (x - y) % GF_MODULUS)

\* a subtraction that borrows
C2_Witness == aop = "sub" /\ x = 1 /\ y = 3 /\ res = GF_MODULUS - 2

\* C3, as stated: sub_mod(add_mod(x, y), y) = x for all x, y in [0, 65535]
C3_SubUndoesAdd == aop = "addsub" => res = x

\* C3, amended: sub_mod(add_mod(x, y), y) = x, except that for x = 65535 and
\* y # 0 it is 0; it is always congruent to x modulo 65535
C3_SubUndoesAddUpToZero ==
    aop = "addsub" =>
        /\ res = (IF x = GF_MODULUS /\ y # 0 THEN 0 ELSE x)
        /\ res % GF_MODULUS = x % GF_MODULUS

\* a round trip through an addition that carries
C3_Witness == aop = "addsub" /\ x = GF_MODULUS - 1 /\ y = GF_MODULUS /\ res = x

\* r is v modulo 65535, canonical or with 65535 standing for 0
FoldedResidue(r, v) ==
    /\ r \in 0 .. GF_MODULUS
    /\ r % GF_MODULUS = v % GF_MODULUS
    /\ r # v % GF_MODULUS => (r = GF_MODULUS /\ v % GF_MODULUS = 0)

\* C10: add_mod(x, y) is congruent to x + y and sub_mod(x, y) to x - y modulo
\* 65535, and each differs from the canonical residue only by returning 65535
\* where the canonical residue is 0
C10_CongruentUpToZero ==
    /\ aop = "add" => FoldedResidue(res, x + y)
    /\ aop = "sub" => FoldedResidue(res, x - y)

\* the one subtraction that returns the non-canonical 65535
C10_Witness == aop = "sub" /\ x = GF_MODULUS /\ y = 0 /\ res = GF_MODULUS

(***************************************************************************)
(* Properties of checked_next_multiple_of (SpecNm)                         *)
(***************************************************************************)
\* the smallest m >= p with m a multiple of q, for q > 0
LeastMultiple(p, q) ==
    CHOOSE m \in p .. p + q :
        /\ m % q = 0
        /\ \A n \in p .. m - 1 : n % q # 0

\* C4: checked_next_multiple_of(a, b) is Some(m) for the smallest multiple m of
\* b with m >= a when b # 0 and m fits the integer width, and None exactly when
\* b = 0 or m does not fit
C4_NextMultiple ==
    nmpc = "done" =>
        /\ nm = (IF b = 0 THEN None
                 ELSE IF LeastMultiple(a, b) <= USIZE_MAX
                      THEN Some(LeastMultiple(a, b))
                      ELSE None)
        /\ (a = 20 /\ b = 10) => nm = Some(20)
        /\ (a = 27 /\ b = 10) => nm = Some(30)
        /\ (a = USIZE_MAX /\ b = 2) => nm = None

\* the overflow case (MAX, 2)
C4_Witness == nmpc = "done" /\ a = USIZE_MAX /\ b = 2 /\ nm = None

(***************************************************************************)
(* Properties of formal_derivative (SpecFd, SpecFdWide)                    *)
(***************************************************************************)
\* number of xor_within calls that returned (a panicking call is the last recorded)
Executed == IF fdpc = "panic" THEN Len(hist) - 1 ELSE Len(hist)

\* the half-open range [p, p + count)
Range(p, count) == p .. p + count - 1

\* xor_within applied to a buffer whose cell k holds the single bit 2^k:
\* afterwards cell k holds the bits of every cell that flowed into it
Probe(c) == xor_within([k \in 0 .. len - 1 |-> 2 ^ k], c.x, c.y, c.count)

\* the cells a call writes, and the cells it reads into another cell
Written(c) ==
    LET pr == Probe(c)
    IN  {k \in 0 .. len - 1 : pr[k] # 2 ^ k}
ReadAsSource(c) ==
    LET pr == Probe(c)
        wr == {d \in 0 .. len - 1 : pr[d] # 2 ^ d}
    IN  {k \in 0 .. len - 1 :
            \E d \in wr : d # k /\ (pr[d] \div 2 ^ k) % 2 = 1}

\* C5, as stated: step i XORs the window [i - width, i) into [i, i + width);
\* what changes is [i, i + width), the window [i - width, i) stays as it was
C5_XorsLowerIntoUpper ==
    (Executed > 0 /\ fdpc # "panic") =>
        LET c == hist[Len(hist)]
            w == width(c.i)
        IN  \A k \in 0 .. len - 1 :
                bufA[k] = (IF k \in Range(c.i, w)
                           THEN BitXor(prevA[k], prevA[k - w])
                           ELSE prevA[k])

\* C5, amended: step i, for i = 1 .. len - 1 with width = ((i XOR (i - 1)) + 1) >> 1,
\* XORs the window [i, i + width) into [i - width, i); what changes is
\* [i - width, i), the window [i, i + width) stays as it was
C5_XorsUpperIntoLower ==
    /\ \A j \in 1 .. Len(hist) : hist[j].i = j
    /\ (Executed > 0 /\ fdpc # "panic") =>
            LET c == hist[Len(hist)]
                w == width(c.i)
            IN  \A k \in 0 .. len - 1 :
                    bufA[k] = (IF k \in Range(c.i - w, w)
                               THEN BitXor(prevA[k], prevA[k + w])
                               ELSE prevA[k])

\* step 4 of a buffer of 8 has changed the buffer
C5_Witness ==
    /\ fdpc = "loop" /\ len = MaxShardsWide /\ Len(hist) = 4
    /\ bufA # prevA

\* C6: formal_derivative(a XOR b) = formal_derivative(a) XOR formal_derivative(b)
C6_Linear ==
    fdpc = "done" => bufX = [k \in 0 .. len - 1 |-> BitXor(bufA[k], bufB[k])]

\* derivatives of two different non-zero buffers of 4 shards
C6_Witness ==
    /\ fdpc = "done" /\ len = 4 /\ Len(hist) = 3
    /\ bufA # bufB
    /\ \E k \in 0 .. len - 1 : bufA[k] # 0
    /\ \E k \in 0 .. len - 1 : bufB[k] # 0

\* C7, as stated: the steps run in the order i = 1, 2, ..., and for some i < j
\* the range step j reads as its source holds a cell step i has written
C7_SourceHoldsEarlierResult ==
    /\ \A j \in 1 .. Len(hist) : hist[j].i = j
    /\ Executed >= 2 =>
            \E j1, j2 \in 1 .. Executed :
                /\ j1 < j2
                /\ ReadAsSource(hist[j2]) \cap Written(hist[j1]) # {}

\* C7, amended: the steps run in the order i = 1, 2, ..., len - 1; for some
\* i < j the range step j XORs into holds a cell step i has written, while
\* the range a step reads as its source holds no cell an earlier step has written
C7_DestinationHoldsEarlierResult ==
    /\ \A j \in 1 .. Len(hist) : hist[j].i = j
    /\ Executed >= 2 =>
            LET src == ReadAsSource(hist[Executed])
            IN  \A j1 \in 1 .. Executed - 1 : src \cap Written(hist[j1]) = {}
    /\ Executed >= 2 =>
            \E j1, j2 \in 1 .. Executed :
                /\ j1 < j2
                /\ Written(hist[j2]) \cap Written(hist[j1]) # {}

\* all 7 steps of a buffer of 8 have run
C7_Witness == fdpc = "done" /\ len = MaxShardsWide /\ Executed = MaxShardsWide - 1

\* n is a power of two
IsPowerOfTwo(n) == \E e \in 0 .. n : 2 ^ e = n

\* C8: the two ranges of every xor_within call of formal_derivative are
\* [i - width, i) and [i, i + width) with i - width >= 0, they do not overlap,
\* and for a buffer length that is a power of two both lie inside [0, len)
C8_CallsMeetPrecondition ==
    /\ \A j \in 1 .. Len(hist) :
            LET c == hist[j] IN
            /\ c.count >= 1
            /\ c.x >= 0
            /\ {c.x, c.y} = {c.i - c.count, c.i}
            /\ Range(c.x, c.count) \cap Range(c.y, c.count) = {}
            /\ IsPowerOfTwo(len) =>
                    (Range(c.x, c.count) \cup Range(c.y, c.count)) \subseteq 0 .. len - 1
    /\ IsPowerOfTwo(len) => fdpc # "panic"

\* the widest call of a buffer of 8: [0, 4) and [4, 8)
C8_Witness ==
    /\ fdpc = "done" /\ len = MaxShardsWide
    /\ hist[4] = [i |-> 4, x |-> 0, y |-> 4, count |-> 4]

(***************************************************************************)
(* Properties of eval_poly (SpecEv)                                        *)
(***************************************************************************)
\* the product e * f as [hi, lo], computed from the two bytes of e
RefProduct(e, f) ==
    LET t == f * (e \div ByteRange)
        low == (t % ByteRange) * ByteRange + f * (e % ByteRange)
    IN  [hi |-> (t \div ByteRange) + (low \div U16Range), lo |-> low % U16Range]

\* e * f modulo 65535
RefMulMod(e, f) ==
    (((f * (e \div ByteRange)) % GF_MODULUS) * ByteRange + f * (e % ByteRange))
        % GF_MODULUS

\* C9: the 32-bit product p = e * f never overflows, the stored value is
\* add_mod(p mod 2^16, p >> 16), which lies in [0, 65535] and is congruent to
\* e * f modulo 65535; the multiply runs after the truncated fwht and before
\* the full-length fwht
C9_MultiplyFoldsBetweenFwhts ==
    /\ ~overflow
    /\ epc = "fwht" =>
            \A k \in DOMAIN erasures :
                LET p == RefProduct(pre[k], log_walsh[k]) IN
                /\ p.hi < U16Range
                /\ erasures[k] = add_mod(p.lo, p.hi)
                /\ erasures[k] \in 0 .. GF_MODULUS
                /\ erasures[k] % GF_MODULUS = RefMulMod(pre[k], log_walsh[k])
    /\ epc = "start" => calls = <<>>
    /\ epc = "multiply" => calls = << <<"fwht", truncated_size>> >>
    /\ epc = "fwht" => calls = << <<"fwht", truncated_size>>, <<"multiply">> >>
    /\ epc = "done" =>
            calls = << <<"fwht", truncated_size>>, <<"multiply">>,
                       <<"fwht", ErasuresLen>> >>

\* a product whose two halves carry when added: 65534 * 65534 = 0xFFFC0004
C9_Witness ==
    /\ epc = "fwht"
    /\ \E k \in DOMAIN erasures :
            /\ pre[k] = GF_MODULUS - 1
            /\ log_walsh[k] = GF_MODULUS - 1
            /\ erasures[k] = 1

====
